---- MODULE Spec2Model ----
(***************************************************************************)
(* InsurTrack: the relational tables, their row-level-security policies,   *)
(* the exposed database functions, the serverless functions and the page   *)
(* handlers that the access-control and reminder properties depend on.     *)
(*                                                                         *)
(* Identities.  auth.users.email is unique and no code path deletes an     *)
(* auth user, so an auth user is identified with its email: user ids and   *)
(* emails are the numbers 1..MaxUsers.  agents.user_id is UNIQUE, so an    *)
(* agents row is identified by the number of the user it belongs to.       *)
(***************************************************************************)
EXTENDS Integers, FiniteSets, Sequences, TLC

\* ---------------------------------------------------------------- bounds
MaxUsers == 3
MaxPolicies == 2
MaxAgents == 1
MaxAssignments == 1
MaxMonth == 4
MaxPayments == 2
MaxTabs == 2
MaxCommissions == 1

\* ------------------------------------------------------------- constants
NULL == 0
AdminEmail == 1
SeedEmail == 2

Users == 1..MaxUsers
PolicyIds == 1..MaxPolicies
PaymentIds == 1..MaxPayments
Tabs == 1..MaxTabs
app_role == {"admin", "agent", "user"}
AgentCodes == {"AG1", "AG2"}

VARIABLES
  authUsers,          \* auth.users: the ids (= emails) of the existing users
  profiles,           \* public.profiles rows [id, onboarded_by_agent]
  user_roles,         \* public.user_roles rows <<user_id, role>>
  agents,             \* public.agents rows [id, user_id, agent_code, is_active]
  agent_clients,      \* public.agent_clients rows <<agent_id, client_id>>
  insurance_policies, \* public.insurance_policies rows
  premium_payments,   \* public.premium_payments rows
  policy_commissions, \* public.policy_commissions rows
  session,            \* the user signed in in the browser, or NULL
  tabs,               \* the client Dashboard pages that are open
  ui,                 \* the browser tab: AuthProvider, useUserRole and the dashboard page
  cron                \* the calendar and the reminders of the current month

vars == <<authUsers, profiles, user_roles, agents, agent_clients,
          insurance_policies, premium_payments, policy_commissions,
          session, tabs, ui, cron>>

\* The tables as one value, threaded through the steps of a handler.
DB ==
  [authUsers |-> authUsers, profiles |-> profiles, user_roles |-> user_roles,
   agents |-> agents, agent_clients |-> agent_clients,
   insurance_policies |-> insurance_policies,
   premium_payments |-> premium_payments,
   policy_commissions |-> policy_commissions]

SetDB(db) ==
  /\ authUsers' = db.authUsers
  /\ profiles' = db.profiles
  /\ user_roles' = db.user_roles
  /\ agents' = db.agents
  /\ agent_clients' = db.agent_clients
  /\ insurance_policies' = db.insurance_policies
  /\ premium_payments' = db.premium_payments
  /\ policy_commissions' = db.policy_commissions

\* ------------------------------------------------- database functions
has_role(db, _user_id, _role) == <<_user_id, _role>> \in db.user_roles

\* get_user_role: SELECT role ... LIMIT 1 returns any one of the user's rows.
get_user_role(db, _user_id) ==
  IF \E r \in app_role : <<_user_id, r>> \in db.user_roles
    THEN {r \in app_role : <<_user_id, r>> \in db.user_roles}
    ELSE {"null"}

FreePolicyIds(db) == PolicyIds \ {p.id : p \in db.insurance_policies}

NewPolicy(id, user_id, agent_id, policy_status, monthly_emi, emi_date) ==
  [id |-> id, user_id |-> user_id, agent_id |-> agent_id,
   policy_status |-> policy_status, monthly_emi |-> monthly_emi,
   emi_date |-> emi_date]

\* insert_seed_policies: two active policies, EMI 5000, due on the 5th and the 10th.
\* insurance_policies.user_id references profiles(id): without a profile the
\* inserts fail and the function changes nothing.
insert_seed_policies(db, target_user_id) ==
  LET free == FreePolicyIds(db)
      id1 == CHOOSE i \in free : \A j \in free : i <= j
      id2 == CHOOSE i \in free \ {id1} : \A j \in free \ {id1} : i <= j
  IN IF \E pr \in db.profiles : pr.id = target_user_id
    THEN [db EXCEPT !.insurance_policies = @ \cup
            {NewPolicy(id1, target_user_id, NULL, "active", 5000, 5),
             NewPolicy(id2, target_user_id, NULL, "active", 5000, 10)}]
    ELSE db

\* The seed inserts need two unused policy ids (the bound on the table).
SeedRoom(db, email) == email = SeedEmail => Cardinality(FreePolicyIds(db)) >= 2

\* (variant: the earlier definition of the trigger, which gives every new user
\* the role 'user')
handle_new_user_alwaysUser(db, new_id) ==
  LET db1 == [db EXCEPT !.profiles = @ \cup {[id |-> new_id, onboarded_by_agent |-> NULL]}]
      db2 == [db1 EXCEPT !.user_roles = @ \cup {<<new_id, "user">>}]
  IN IF new_id = SeedEmail THEN insert_seed_policies(db2, new_id) ELSE db2

\* handle_new_user, the AFTER INSERT trigger on auth.users (latest definition).
handle_new_user(db, new_id) ==
  LET db1 == [db EXCEPT !.profiles = @ \cup {[id |-> new_id, onboarded_by_agent |-> NULL]}]
      db2 == [db1 EXCEPT !.user_roles = @ \cup
                {<<new_id, IF new_id = AdminEmail THEN "admin" ELSE "user">>}]
  IN IF new_id = SeedEmail THEN insert_seed_policies(db2, new_id) ELSE db2

\* Inserting an auth.users row (sign-up or auth.admin.createUser) fires the trigger
\* in the same transaction.
createUser(db, email) ==
  handle_new_user([db EXCEPT !.authUsers = @ \cup {email}], email)

\* promote_to_admin: SECURITY DEFINER, executable by every API role.  The UPDATE
\* rewrites every user_roles row of the target; when that makes two rows equal
\* the UNIQUE (user_id, role) constraint aborts the statement.
promote_to_admin(db, user_email) ==
  LET mine == {r \in db.user_roles : r[1] = user_email}
  IN IF user_email \in db.authUsers /\ Cardinality(mine) = 1
       THEN [db EXCEPT !.user_roles = (@ \ mine) \cup {<<user_email, "admin">>}]
       ELSE db

\* ------------------------------------------------ row-level security
\* user_roles
user_roles_select(db, uid, row) ==
  \/ uid = row[1]                          \* Users can view their own role
  \/ has_role(db, uid, "admin")            \* Admins can view all roles
user_roles_insert(db, uid, row) == has_role(db, uid, "admin")
user_roles_update(db, uid, row) == has_role(db, uid, "admin")
user_roles_delete(db, uid, row) == has_role(db, uid, "admin")

\* agents
agents_select(db, uid, a) ==
  \/ uid = a.user_id                       \* Agents can view their own record
  \/ has_role(db, uid, "admin")            \* Admins can view all agents
  \/ TRUE                                  \* Authenticated users can view agents for verification
agents_update(db, uid, a) == has_role(db, uid, "admin")

\* agent_clients
agent_clients_select(db, uid, ac) ==
  \/ \E a \in db.agents : a.id = ac[1] /\ a.user_id = uid   \* Agents can view their own clients
  \/ has_role(db, uid, "admin")                             \* Admins can view all agent_clients
  \/ uid = ac[2]                                            \* Users can view their own agent assignment
agent_clients_insert(db, uid, ac) == has_role(db, uid, "admin")
agent_clients_delete(db, uid, ac) == has_role(db, uid, "admin")

\* insurance_policies
\* (variant: the join does not compare the agent's user with the caller)
AgentOfClient_anyAgent(db, uid, client) ==
  \E ac \in db.agent_clients : \E a \in db.agents :
    a.id = ac[1] /\ ac[2] = client

AgentOfClient(db, uid, client) ==
  \E ac \in db.agent_clients : \E a \in db.agents :
    a.id = ac[1] /\ ac[2] = client /\ a.user_id = uid

insurance_policies_select(db, uid, p) ==
  \/ uid = p.user_id                       \* Users can view their own policies
  \/ AgentOfClient(db, uid, p.user_id)     \* Agents can view their clients policies
  \/ has_role(db, uid, "admin")            \* Admins can view all / manage all / admins_select_all

\* select * from insurance_policies, as the signed-in user uid
selectPolicies(db, uid) ==
  {p \in db.insurance_policies : insurance_policies_select(db, uid, p)}

AgentOwnsRow(db, uid, p) ==
  /\ has_role(db, uid, "agent")
  /\ p.agent_id \in {a.id : a \in {b \in db.agents : b.user_id = uid}}
  /\ \E ac \in db.agent_clients : ac[1] = p.agent_id /\ ac[2] = p.user_id

insurance_policies_insert(db, uid, p) ==
  \/ uid = p.user_id                       \* Users can insert their own policies
  \/ AgentOfClient(db, uid, p.user_id)     \* Agents can insert policies for their clients
  \/ AgentOwnsRow(db, uid, p)              \* agents_insert_assigned_client_policies
  \/ has_role(db, uid, "admin")            \* Admins can manage all policies

\* UPDATE on insurance_policies: the old row must pass the USING clause of some
\* policy and the new row the WITH CHECK clause of some policy (a policy without
\* WITH CHECK checks the new row with its USING clause).
insurance_policies_update_using(db, uid, p) ==
  \/ uid = p.user_id                       \* Users can update their own policies
  \/ AgentOfClient(db, uid, p.user_id)     \* Agents can update their clients policies
  \/ AgentOwnsRow(db, uid, p)              \* agents_update_assigned_client_policies
  \/ has_role(db, uid, "admin")            \* Admins can manage all policies
insurance_policies_update(db, uid, old, new) ==
  /\ insurance_policies_update_using(db, uid, old)
  /\ insurance_policies_update_using(db, uid, new)

\* ------------------------------------------------ serverless functions
\* A request: method, bearer token (NULL: no Authorization header; a number: a
\* token issued for that user id) and the JSON body.  `fail` names the one
\* platform call of the run that returns an error although the tables would
\* let it succeed ("none": every call behaves).
Methods == {"POST", "GET", "OPTIONS"}
Tokens == Users \cup {NULL}
\* Bodies: the complete bodies, and for each required field one body that lacks it.
CompleteBody(email, agentCode, commissionRate) ==
  [email |-> email, password |-> TRUE, fullName |-> TRUE,
   agentCode |-> agentCode, commissionRate |-> commissionRate]
Bodies ==
  {CompleteBody(e, c, r) : e \in Users, c \in AgentCodes, r \in {NULL, 150}}
    \cup {[CompleteBody(AdminEmail, "AG1", NULL) EXCEPT !.email = NULL],
          [CompleteBody(AdminEmail, "AG1", NULL) EXCEPT !.password = FALSE],
          [CompleteBody(AdminEmail, "AG1", NULL) EXCEPT !.fullName = FALSE],
          [CompleteBody(AdminEmail, "AG1", NULL) EXCEPT !.agentCode = ""]}
CreateAgentCalls ==
  {"none", "getUser", "has_role", "json", "createUser", "upsertProfile",
   "deleteRoles", "insertRole", "insertAgent"}
OnboardClientCalls ==
  {"none", "getUser", "has_role", "selectAgent", "json", "createUser",
   "upsertProfile", "deleteRoles", "insertRole", "insertAssignment"}

Answer(db, status, success, bodyRead, userId, assignError) ==
  [db |-> db, status |-> status, success |-> success, bodyRead |-> bodyRead,
   userId |-> userId, assignError |-> assignError]

\* (variant: the upsert keeps the stored columns of an existing row)
upsertProfile_keepsExisting(db, id, onboarded) ==
  IF \E pr \in db.profiles : pr.id = id THEN db
  ELSE [db EXCEPT !.profiles = @ \cup {[id |-> id, onboarded_by_agent |-> onboarded]}]

\* profiles upsert on conflict id: the given columns are written, the others kept.
upsertProfile(db, id, onboarded) ==
  LET old == {pr \in db.profiles : pr.id = id}
      kept == IF old = {} THEN NULL ELSE (CHOOSE pr \in old : TRUE).onboarded_by_agent
  IN [db EXCEPT !.profiles = (@ \ old) \cup
        {[id |-> id, onboarded_by_agent |-> IF onboarded = NULL THEN kept ELSE onboarded]}]

deleteRoles(db, userId) ==
  [db EXCEPT !.user_roles = {r \in @ : r[1] # userId}]

\* agents insert: user_id UNIQUE, agent_code UNIQUE, CHECK 0 <= commission_rate <= 100.
agentsInsertOk(db, userId, agentCode, commissionRate) ==
  /\ \A a \in db.agents : a.user_id # userId /\ a.agent_code # agentCode
  /\ commissionRate >= 0 /\ commissionRate <= 100

\* (variant: only the error of the has_role call is looked at, not its answer)
create_agent_guard_roleAnswerIgnored(db, method, token, fail) ==
  IF method # "POST" THEN 405
  ELSE IF token = NULL THEN 401
  ELSE IF fail = "getUser" \/ token \notin db.authUsers THEN 401
  ELSE IF fail = "has_role" THEN 403
  ELSE NULL

\* create-agent, the checks before the body is read: the status of the refusal,
\* or NULL when the request passes.
create_agent_guard(db, method, token, fail) ==
  IF method # "POST" THEN 405
  ELSE IF token = NULL THEN 401
  ELSE IF fail = "getUser" \/ token \notin db.authUsers THEN 401
  ELSE IF fail = "has_role" \/ ~has_role(db, token, "admin") THEN 403
  ELSE NULL

\* create-agent from req.json() on.
create_agent_steps(db, body, fail) ==
  IF fail = "json" THEN Answer(db, 500, FALSE, TRUE, NULL, FALSE)
  ELSE IF body.email = NULL \/ ~body.password \/ ~body.fullName \/ body.agentCode = ""
    THEN Answer(db, 400, FALSE, TRUE, NULL, FALSE)
  \* 1) create the auth user
  ELSE IF fail = "createUser" \/ body.email \in db.authUsers
    THEN Answer(db, 400, FALSE, TRUE, NULL, FALSE)
  ELSE
    LET userId == body.email
        db1 == createUser(db, body.email)
        \* 2) ensure profile exists
        db2 == upsertProfile(db1, userId, NULL)
        \* 3) set role to 'agent'; the result of the delete is not looked at
        db3 == IF fail = "deleteRoles" THEN db2 ELSE deleteRoles(db2, userId)
        db4 == [db3 EXCEPT !.user_roles = @ \cup {<<userId, "agent">>}]
        \* 4) create agent record
        rate == IF body.commissionRate = NULL THEN 10 ELSE body.commissionRate
        db5 == [db4 EXCEPT !.agents = @ \cup
                  {[id |-> userId, user_id |-> userId,
                    agent_code |-> body.agentCode, is_active |-> TRUE]}]
    IN IF fail = "upsertProfile" THEN Answer(db1, 500, FALSE, TRUE, userId, FALSE)
       ELSE IF fail = "insertRole" \/ <<userId, "agent">> \in db3.user_roles
         THEN Answer(db3, 500, FALSE, TRUE, userId, FALSE)
       ELSE IF fail = "insertAgent" \/ ~agentsInsertOk(db4, userId, body.agentCode, rate)
         THEN Answer(db4, 500, FALSE, TRUE, userId, FALSE)
       ELSE Answer(db5, 200, TRUE, TRUE, userId, FALSE)

create_agent(db, method, token, body, fail) ==
  LET refused == create_agent_guard(db, method, token, fail)
  IN IF refused # NULL THEN Answer(db, refused, FALSE, FALSE, NULL, FALSE)
     ELSE create_agent_steps(db, body, fail)

\* (variant: the role check compares against 'user' instead of 'agent')
onboard_client_guard_wrongRole(db, method, token, fail) ==
  IF method = "OPTIONS" THEN 200
  ELSE IF method # "POST" THEN 405
  ELSE IF token = NULL THEN 401
  ELSE IF fail = "getUser" \/ token \notin db.authUsers THEN 401
  ELSE IF fail = "has_role" \/ ~has_role(db, token, "user") THEN 403
  ELSE IF fail = "selectAgent" \/ ~\E a \in db.agents : a.user_id = token THEN 404
  ELSE NULL

\* onboard-client, the checks before the body is read: the status of the answer
\* that ends the request, or NULL when the request passes.
onboard_client_guard(db, method, token, fail) ==
  IF method = "OPTIONS" THEN 200          \* CORS preflight
  ELSE IF method # "POST" THEN 405
  ELSE IF token = NULL THEN 401
  ELSE IF fail = "getUser" \/ token \notin db.authUsers THEN 401
  ELSE IF fail = "has_role" \/ ~has_role(db, token, "agent") THEN 403
  ELSE IF fail = "selectAgent" \/ ~\E a \in db.agents : a.user_id = token THEN 404
  ELSE NULL

\* onboard-client from req.json() on; agentData is the caller's agents row.
onboard_client_steps(db, agentData, body, fail) ==
  IF fail = "json" THEN Answer(db, 500, FALSE, TRUE, NULL, FALSE)
  ELSE IF body.email = NULL \/ ~body.password \/ ~body.fullName
    THEN Answer(db, 400, FALSE, TRUE, NULL, FALSE)
  \* 1) create the auth user
  ELSE IF fail = "createUser" \/ body.email \in db.authUsers
    THEN Answer(db, 400, FALSE, TRUE, NULL, FALSE)
  ELSE
    LET userId == body.email
        db1 == createUser(db, body.email)
        \* 2) create/update profile with onboarded_by_agent
        db2 == upsertProfile(db1, userId, agentData.id)
        \* 3) set role to 'user'; the result of the delete is not looked at
        db3 == IF fail = "deleteRoles" THEN db2 ELSE deleteRoles(db2, userId)
        db4 == [db3 EXCEPT !.user_roles = @ \cup {<<userId, "user">>}]
        \* 4) assign the client to the agent; a failure is logged and ignored
        db5 == [db4 EXCEPT !.agent_clients = @ \cup {<<agentData.id, userId>>}]
    IN IF fail = "upsertProfile" THEN Answer(db1, 500, FALSE, TRUE, userId, FALSE)
       ELSE IF fail = "insertRole" \/ <<userId, "user">> \in db3.user_roles
         THEN Answer(db3, 500, FALSE, TRUE, userId, FALSE)
       ELSE IF fail = "insertAssignment" \/ <<agentData.id, userId>> \in db4.agent_clients
         THEN Answer(db4, 200, TRUE, TRUE, userId, TRUE)
       ELSE Answer(db5, 200, TRUE, TRUE, userId, FALSE)

onboard_client(db, method, token, body, fail) ==
  LET refused == onboard_client_guard(db, method, token, fail)
  IN IF refused # NULL THEN Answer(db, refused, FALSE, FALSE, NULL, FALSE)
     ELSE onboard_client_steps(db, CHOOSE a \in db.agents : a.user_id = token, body, fail)

\* ------------------------------------------------ the sign-in page (Auth)
\* .maybeSingle(): the row when exactly one row matches, otherwise no data
\* (no row, or an error because several rows match).
maybeSingle(rows) == IF Cardinality(rows) = 1 THEN rows ELSE {}

SignInCalls == {"none", "getUser", "selectRole", "selectAssignment", "selectAgent"}

\* signInWithPassword succeeds for an existing user with the right password.
signIn(db, email, passwordOk) == email \in db.authUsers /\ passwordOk

\* The role row the signed-in user reads from user_roles.
roleData(db, uid, fail) ==
  IF fail = "selectRole" THEN {}
  ELSE maybeSingle({r \in db.user_roles : r[1] = uid /\ user_roles_select(db, uid, r)})

\* Auth.handleAdminSignIn: the user left signed in when the handler returns.
adminSignIn(db, email, passwordOk, fail) ==
  IF ~signIn(db, email, passwordOk) THEN NULL
  ELSE IF fail = "getUser" THEN email       \* loggedInUser is null: the checks are skipped
  ELSE IF \A r \in roleData(db, email, fail) : r[2] # "admin" /\ r[2] # "agent"
    THEN NULL                               \* signOut()
  ELSE email

\* Auth.handleClientSignIn: the user left signed in when the handler returns.
clientSignIn(db, email, passwordOk, agentCode, fail) ==
  LET agentClientData ==
        IF fail = "selectAssignment" THEN {}
        ELSE maybeSingle({ac \in db.agent_clients :
                            ac[2] = email /\ agent_clients_select(db, email, ac)})
      agentData ==
        IF fail = "selectAgent" THEN {}
        ELSE maybeSingle({a \in db.agents :
                            /\ \E ac \in agentClientData : a.id = ac[1]
                            /\ agents_select(db, email, a)})
  IN IF agentCode = "" THEN NULL            \* clientSignInSchema rejects the form
     ELSE IF ~signIn(db, email, passwordOk) THEN NULL
     ELSE IF fail = "getUser" THEN email    \* loggedInUser is null: the checks are skipped
     ELSE IF \A r \in roleData(db, email, fail) : r[2] # "user" THEN NULL
     ELSE IF agentClientData = {} THEN NULL
     ELSE IF \A a \in agentData : a.agent_code # agentCode THEN NULL
     ELSE email


\* ------------------------------------------------ the dashboards (AdminDashboard, AgentDashboard)
\* ui: route (the page shown), authLoading and user (AuthProvider), roleLoading and
\* role (useUserRole of the mounted dashboard), pending (the user whose role
\* fetch is in flight), toast, fetched (fetchData was called by this mount) and
\* view (what the last render returned).  A state is the tab after a state
\* update has been rendered and its effects have run.
Dashboards == {"/admin", "/agent"}
PageRole(route) == IF route = "/admin" THEN "admin" ELSE "agent"

\* isAdmin on the admin dashboard, isAgent on the agent dashboard
isRole(u) == u.route \in Dashboards /\ u.role = PageRole(u.route)

\* AuthProvider right after construction, no dashboard mounted
Unmounted(route, toast, authLoading, user) ==
  [route |-> route, authLoading |-> authLoading, user |-> user,
   roleLoading |-> TRUE, role |-> "null", pending |-> NULL, toast |-> toast,
   fetched |-> FALSE, view |-> "none",
   \* AdminDashboard's Assign Client dialog ('' is NULL)
   selectedAgent |-> NULL, selectedClientForAssign |-> NULL,
   assigningClient |-> FALSE, assignDialogOpen |-> FALSE]

\* navigate(to): the dashboard is unmounted, its hook state is dropped
navigate(u, to, toast) == Unmounted(to, toast, u.authLoading, u.user)

\* useUserRole's effect, run on mount and when user changes: without a user it
\* sets role null and loading false at once, with a user it starts the fetch
\* (and does not set loading back to true).
useUserRoleEffect(u) ==
  IF u.user = NULL THEN [u EXCEPT !.role = "null", !.roleLoading = FALSE]
  ELSE [u EXCEPT !.pending = u.user]

\* (variant: the guard only sends visitors without a session away)
guardEffect_noRoleCheck(u) ==
  IF ~u.authLoading /\ ~u.roleLoading /\ u.user = NULL
    THEN navigate(u, "/auth", "") ELSE u

\* the dashboards' guard effect
guardEffect(u) ==
  IF ~u.authLoading /\ ~u.roleLoading
    THEN IF u.user = NULL THEN navigate(u, "/auth", "")
         ELSE IF ~isRole(u) THEN navigate(u, "/dashboard", "Access denied")
         ELSE u
    ELSE u

\* the dashboards' fetch effect: if (isAdmin) fetchData(); if (isAgent && user) fetchData()
fetchEffect(u) ==
  IF isRole(u) /\ (u.route = "/agent" => u.user # NULL)
    THEN [u EXCEPT !.fetched = TRUE] ELSE u

\* the dashboards' loading gate
render(u) ==
  [u EXCEPT !.view = IF u.authLoading \/ u.roleLoading \/ ~isRole(u)
                       THEN "spinner" ELSE "content"]

\* One commit of a mounted dashboard: the effects run with the rendered values;
\* when useUserRole's effect has set state, the page renders again and the guard
\* and fetch effects run with the new values.
Commit(u, userChanged) ==
  LET g1 == guardEffect(u)
      u2 == fetchEffect(IF userChanged THEN useUserRoleEffect(u) ELSE u)
      g2 == guardEffect(u2)
  IN IF u.route \notin Dashboards THEN u
     ELSE IF g1.route # u.route THEN g1
     ELSE IF g2.route # u.route THEN g2
     ELSE render(u2)

\* mounting a dashboard under the AuthProvider's current state
Mount(route, authLoading, user) ==
  Commit([Unmounted(route, "", authLoading, user) EXCEPT !.view = "spinner"], TRUE)

\* AuthProvider: the onAuthStateChange listener and the getSession callback
onAuthStateChange(u, s) ==
  Commit([u EXCEPT !.user = s, !.authLoading = FALSE], u.user # s)

\* the role useUserRole stores when its fetch returns
fetchedRole(db, uid, fail) ==
  IF roleData(db, uid, fail) = {} THEN "user"
  ELSE (CHOOSE r \in roleData(db, uid, fail) : TRUE)[2]

\* ------------------------------------------------ send-emi-reminders
\* The days of the months of a common year.
DaysIn(month) ==
  IF month = 2 THEN 28 ELSE IF month \in {4, 6, 9, 11} THEN 30 ELSE 31

\* (variant: the day of month is incremented without the calendar's rollover)
tomorrowDay_noRollover(month, day) == day + 1

\* tomorrow.setDate(tomorrow.getDate() + 1); tomorrow.getDate()
tomorrowDay(month, day) == IF day < DaysIn(month) THEN day + 1 ELSE 1

\* The platform call of a run that fails: <<call, user>>.
ReminderCalls ==
  {<<"none", NULL>>, <<"selectPolicies", NULL>>}
    \cup ({"selectProfile", "send"} \X Users)

\* userPolicies.reduce((sum, p) => sum + Number(p.monthly_emi), 0)
RECURSIVE totalEMI(_)
totalEMI(userPolicies) ==
  IF userPolicies = {} THEN 0
  ELSE LET p == CHOOSE q \in userPolicies : TRUE
       IN p.monthly_emi + totalEMI(userPolicies \ {p})

\* send-emi-reminders: the answer, the emails handed to resend.emails.send
\* (emails) and the policies listed in an email that was sent (included).
send_emi_reminders(db, method, month, day, fail) ==
  LET policies == {p \in db.insurance_policies :
                     /\ p.policy_status = "active"
                     /\ p.emi_date = tomorrowDay(month, day)
                     /\ p.monthly_emi # NULL}
      policiesByUser == {p.user_id : p \in policies}
      withProfile == {u \in policiesByUser :
                        /\ \E pr \in db.profiles : pr.id = u
                        /\ fail # <<"selectProfile", u>>}
      sentTo == {u \in withProfile : fail # <<"send", u>>}
      quiet == [status |-> 200, message |-> "", count |-> 0, policiesFound |-> 0,
                emailsSent |-> 0, emailsFailed |-> 0, emails |-> {}, included |-> {}]
  IN IF method = "OPTIONS" THEN quiet
     ELSE IF fail[1] = "selectPolicies" THEN [quiet EXCEPT !.status = 500]
     ELSE IF policies = {}
       THEN [quiet EXCEPT !.message = "No EMI reminders to send"]
     ELSE [status |-> 200, message |-> "EMI reminders processed", count |-> NULL,
           policiesFound |-> Cardinality(policies),
           emailsSent |-> Cardinality(sentTo),
           emailsFailed |-> Cardinality(policiesByUser \ sentTo),
           emails |-> {[to |-> u,
                        policies |-> {p.id : p \in {q \in policies : q.user_id = u}},
                        total |-> totalEMI({q \in policies : q.user_id = u})] :
                       u \in withProfile},
           included |-> {p.id : p \in {q \in policies : q.user_id \in sentTo}}]

\* ------------------------------------------------ table requests (PostgREST + RLS)
\* A denied INSERT is an error; a denied UPDATE or DELETE matches no row.
insertUserRole(db, caller, row) ==
  IF user_roles_insert(db, caller, row) /\ row[1] \in db.authUsers
    THEN [db EXCEPT !.user_roles = @ \cup {row}] ELSE db

updateUserRole(db, caller, row, role) ==
  IF row \in db.user_roles /\ user_roles_update(db, caller, row)
       /\ <<row[1], role>> \notin db.user_roles
    THEN [db EXCEPT !.user_roles = (@ \ {row}) \cup {<<row[1], role>>}] ELSE db

deleteUserRole(db, caller, row) ==
  IF user_roles_delete(db, caller, row)
    THEN [db EXCEPT !.user_roles = @ \ {row}] ELSE db

\* AdminDashboard.handleAssignClient: insert into agent_clients
\* (RLS, the foreign keys and UNIQUE (agent_id, client_id) decide).
assignClient(db, caller, selectedAgent, selectedClientForAssign) ==
  IF /\ agent_clients_insert(db, caller, <<selectedAgent, selectedClientForAssign>>)
     /\ \E a \in db.agents : a.id = selectedAgent
     /\ selectedClientForAssign \in db.authUsers
    THEN [db EXCEPT !.agent_clients = @ \cup {<<selectedAgent, selectedClientForAssign>>}]
    ELSE db

\* AdminDashboard.handleRemoveAssignment: delete from agent_clients where id = ...
removeAssignment(db, caller, row) ==
  IF agent_clients_delete(db, caller, row)
    THEN [db EXCEPT !.agent_clients = @ \ {row}] ELSE db

\* The error code of the insert into agent_clients, "" when the row is inserted:
\* the row-level-security check comes before the constraints of the table.
assignClientError(db, caller, agent_id, client_id, fail) ==
  IF fail THEN "fetch"
  ELSE IF ~agent_clients_insert(db, caller, <<agent_id, client_id>>) THEN "42501"
  ELSE IF ~(\E a \in db.agents : a.id = agent_id) \/ client_id \notin db.authUsers
    THEN "23503"
  ELSE IF <<agent_id, client_id>> \in db.agent_clients THEN "23505"
  ELSE ""

\* (variant: the dialog is reset and closed after a rejected assignment too)
assignClientDialog_resetOnError(db, u, caller, fail) ==
  IF u.selectedAgent = NULL \/ u.selectedClientForAssign = NULL
    THEN [db |-> db, ui |-> [u EXCEPT !.toast = "Please select both agent and client"]]
  ELSE
    LET error == assignClientError(db, caller, u.selectedAgent, u.selectedClientForAssign, fail)
        reset == [u EXCEPT !.selectedAgent = NULL, !.selectedClientForAssign = NULL,
                           !.assignDialogOpen = FALSE, !.assigningClient = FALSE]
    IN IF error = "23505"
         THEN [db |-> db,
               ui |-> [reset EXCEPT !.toast = "This client is already assigned to this agent"]]
       ELSE IF error # ""
         THEN [db |-> db, ui |-> [reset EXCEPT !.toast = "Failed to assign client"]]
       ELSE [db |-> assignClient(db, caller, u.selectedAgent, u.selectedClientForAssign),
             ui |-> [reset EXCEPT !.toast = "Client assigned successfully!"]]

\* AdminDashboard.handleAssignClient with the dialog's state: the tables and the
\* page after the handler has returned.
assignClientDialog(db, u, caller, fail) ==
  IF u.selectedAgent = NULL \/ u.selectedClientForAssign = NULL
    THEN [db |-> db, ui |-> [u EXCEPT !.toast = "Please select both agent and client"]]
  ELSE
    LET error == assignClientError(db, caller, u.selectedAgent, u.selectedClientForAssign, fail)
        done == [u EXCEPT !.assigningClient = FALSE]
    IN IF error = "23505"
         THEN [db |-> db,
               ui |-> [done EXCEPT !.toast = "This client is already assigned to this agent"]]
       ELSE IF error # ""
         THEN [db |-> db, ui |-> [done EXCEPT !.toast = "Failed to assign client"]]
       ELSE [db |-> assignClient(db, caller, u.selectedAgent, u.selectedClientForAssign),
             ui |-> [done EXCEPT !.toast = "Client assigned successfully!",
                                 !.selectedAgent = NULL,
                                 !.selectedClientForAssign = NULL,
                                 !.assignDialogOpen = FALSE]]

\* AdminDashboard.handleToggleAgentStatus: update agents set is_active = !currentStatus
toggleAgentStatus(db, caller, agentId, currentStatus) ==
  LET rows == {a \in db.agents : a.id = agentId /\ agents_update(db, caller, a)}
  IN [db EXCEPT !.agents = (@ \ rows) \cup {[a EXCEPT !.is_active = ~currentStatus] : a \in rows}]

\* policy_commissions: "Admins can manage all commissions" is the only policy
\* that admits a write; UNIQUE (policy_id, agent_id) and the two foreign keys.
policy_commissions_write(db, uid, row) == has_role(db, uid, "admin")
insertCommission(db, caller, row) ==
  IF /\ policy_commissions_write(db, caller, row)
     /\ \E p \in db.insurance_policies : p.id = row[1]
     /\ \E a \in db.agents : a.id = row[2]
    THEN [db EXCEPT !.policy_commissions = @ \cup {row}] ELSE db

\* (variant: a policy inserted with an agent_id records the agent's commission)
insertPolicy_withCommission(db, caller, row) ==
  IF /\ insurance_policies_insert(db, caller, row)
     /\ \E pr \in db.profiles : pr.id = row.user_id
     /\ row.agent_id # NULL => \E a \in db.agents : a.id = row.agent_id
     /\ row.emi_date # NULL => row.emi_date >= 1 /\ row.emi_date <= 31
    THEN [db EXCEPT !.insurance_policies = @ \cup {row},
                    !.policy_commissions =
                      IF row.agent_id # NULL THEN @ \cup {<<row.id, row.agent_id>>} ELSE @]
    ELSE db

\* insert into insurance_policies: RLS WITH CHECK, user_id references profiles(id),
\* agent_id references agents(id), CHECK emi_date between 1 and 31.
insertPolicy(db, caller, row) ==
  IF /\ insurance_policies_insert(db, caller, row)
     /\ \E pr \in db.profiles : pr.id = row.user_id
     /\ row.agent_id # NULL => \E a \in db.agents : a.id = row.agent_id
     /\ row.emi_date # NULL => row.emi_date >= 1 /\ row.emi_date <= 31
    THEN [db EXCEPT !.insurance_policies = @ \cup {row}] ELSE db

\* update insurance_policies set user_id, agent_id where id = old.id
updatePolicy(db, caller, old, user_id, agent_id) ==
  LET new == [old EXCEPT !.user_id = user_id, !.agent_id = agent_id]
  IN IF /\ old \in db.insurance_policies
        /\ insurance_policies_update(db, caller, old, new)
        /\ \E pr \in db.profiles : pr.id = user_id
        /\ agent_id # NULL => \E a \in db.agents : a.id = agent_id
       THEN [db EXCEPT !.insurance_policies = (@ \ {old}) \cup {new}] ELSE db

\* premium_payments
premium_payments_select(db, uid, row) ==
  \/ uid = row.user_id                     \* Users can view their own payments
  \/ has_role(db, uid, "admin")            \* Admins can view all / manage all payments
  \/ AgentOfClient(db, uid, row.user_id)   \* Agents can view their clients payments
premium_payments_insert(db, uid, row) ==
  \/ uid = row.user_id                     \* Users can insert their own payments
  \/ has_role(db, uid, "admin")            \* Admins can manage all payments

\* The months a payment is recorded for: <<payment_month, payment_year>>.
PayMonths == {<<1, 2025>>, <<2, 2025>>}

FreePaymentIds(db) == PaymentIds \ {r.id : r \in db.premium_payments}

NewPayment(id, policy_id, user_id, payment_month, payment_year) ==
  [id |-> id, policy_id |-> policy_id, user_id |-> user_id,
   payment_month |-> payment_month, payment_year |-> payment_year]

\* insert into premium_payments: RLS WITH CHECK, policy_id references
\* insurance_policies(id); the table has no uniqueness constraint besides id.
insertPayment(db, caller, row) ==
  IF /\ premium_payments_insert(db, caller, row)
     /\ \E p \in db.insurance_policies : p.id = row.policy_id
    THEN [db EXCEPT !.premium_payments = @ \cup {row}] ELSE db

\* ------------------------------------------------ the client Dashboard
\* A Dashboard page: its user, and policies and premiumPayments as last fetched.
ClosedTab == [user |-> NULL, policies |-> {}, premiumPayments |-> {}]

\* Dashboard.fetchPolicies: the ids of the user's own policies
fetchPolicies(db, uid) ==
  {p.id : p \in {q \in db.insurance_policies :
                   q.user_id = uid /\ insurance_policies_select(db, uid, q)}}

\* Dashboard.fetchPremiumPayments
fetchPremiumPayments(db, uid) ==
  {r \in db.premium_payments : r.user_id = uid /\ premium_payments_select(db, uid, r)}

\* Dashboard.isPremiumPaidForMonth
isPremiumPaidForMonth(premiumPayments, policyId, month, year) ==
  \E p \in premiumPayments :
    p.policy_id = policyId /\ p.payment_month = month /\ p.payment_year = year

\* Dashboard.handlePayPremium: the tables afterwards and the toast shown.
payPremium(db, tab, policyId, month, year, id, fail) ==
  IF isPremiumPaidForMonth(tab.premiumPayments, policyId, month, year)
    THEN [db |-> db, toast |-> "Premium for this month is already paid"]
  ELSE LET db1 == insertPayment(db, tab.user, NewPayment(id, policyId, tab.user, month, year))
       IN IF fail \/ db1 = db
            THEN [db |-> db, toast |-> "Failed to record payment"]
            ELSE [db |-> db1, toast |-> "Premium payment recorded successfully!"]

\* ------------------------------------------------ actions
\* A request that changes neither a table nor the session is a stuttering step.
RowCaps(db) ==
  /\ Cardinality(db.agents) <= MaxAgents
  /\ Cardinality(db.agent_clients) <= MaxAssignments
  /\ Cardinality(db.policy_commissions) <= MaxCommissions

Write(db) ==
  /\ db # DB
  /\ RowCaps(db)
  /\ SetDB(db)
  /\ UNCHANGED <<session, tabs, ui, cron>>

Init ==
  /\ authUsers = {}
  /\ profiles = {}
  /\ user_roles = {}
  /\ agents = {}
  /\ agent_clients = {}
  /\ insurance_policies = {}
  /\ premium_payments = {}
  /\ policy_commissions = {}
  /\ session = NULL
  /\ tabs = [t \in Tabs |-> ClosedTab]
  /\ ui = Unmounted("/auth", "", TRUE, NULL)
  /\ cron = [month |-> 1, day |-> 1, ran |-> FALSE, reminded |-> {},
             enrolled |-> {}, failed |-> FALSE]

\* AuthContext.signUp: auth.signUp inserts the auth.users row (and fires the trigger).
signUp(email) ==
  /\ email \notin authUsers
  /\ SeedRoom(DB, email)
  /\ Write(createUser(DB, email))

CreateAgent(method, token, body, fail) ==
  /\ SeedRoom(DB, body.email)
  /\ Write(create_agent(DB, method, token, body, fail).db)

OnboardClient(method, token, body, fail) ==
  /\ SeedRoom(DB, body.email)
  /\ Write(onboard_client(DB, method, token, body, fail).db)

\* rpc("promote_to_admin", {user_email}) by a signed-in user
RpcPromoteToAdmin(caller, user_email) ==
  /\ caller \in authUsers
  /\ Write(promote_to_admin(DB, user_email))

\* rpc("insert_seed_policies", {target_user_id}) by a signed-in user
RpcInsertSeedPolicies(caller, target_user_id) ==
  /\ caller \in authUsers
  /\ Cardinality(FreePolicyIds(DB)) >= 2
  /\ Write(insert_seed_policies(DB, target_user_id))

TableInsertUserRole(caller, row) ==
  /\ caller \in authUsers
  /\ Write(insertUserRole(DB, caller, row))

TableUpdateUserRole(caller, row, role) ==
  /\ caller \in authUsers
  /\ Write(updateUserRole(DB, caller, row, role))

TableDeleteUserRole(caller, row) ==
  /\ caller \in authUsers
  /\ Write(deleteUserRole(DB, caller, row))

handleAssignClient(caller, selectedAgent, selectedClientForAssign) ==
  /\ caller \in authUsers
  /\ Write(assignClient(DB, caller, selectedAgent, selectedClientForAssign))

handleRemoveAssignment(caller, row) ==
  /\ caller \in authUsers
  /\ Write(removeAssignment(DB, caller, row))

\* AddPolicy.handleSubmit sends user_id = the caller and no agent_id; the agent's
\* Add Policy dialog sends the client's id and the agent's id.
InsertPolicy(caller, id, user_id, agent_id, shape) ==
  /\ caller \in authUsers
  /\ id \in FreePolicyIds(DB)
  /\ \A j \in FreePolicyIds(DB) : id <= j
  /\ Write(insertPolicy(DB, caller, NewPolicy(id, user_id, agent_id, shape[1], shape[2], shape[3])))

\* An update of a policy's owner and agent through the API, as a signed-in user.
UpdatePolicy(caller, id, user_id, agent_id) ==
  /\ caller \in authUsers
  /\ \E old \in insurance_policies :
       /\ old.id = id
       /\ Write(updatePolicy(DB, caller, old, user_id, agent_id))

\* An insert into policy_commissions through the API, as a signed-in user.
TableInsertCommission(caller, policy_id, agent_id) ==
  /\ caller \in authUsers
  /\ Write(insertCommission(DB, caller, <<policy_id, agent_id>>))

\* The page is shown to a visitor without a session (a signed-in visitor is
\* navigated away by the page's redirect effect).
handleAdminSignIn(email, passwordOk, fail) ==
  /\ session = NULL
  /\ adminSignIn(DB, email, passwordOk, fail) # NULL
  /\ session' = adminSignIn(DB, email, passwordOk, fail)
  /\ ui' = onAuthStateChange(ui, session')
  /\ UNCHANGED <<authUsers, profiles, user_roles, agents, agent_clients,
                 insurance_policies, premium_payments, policy_commissions, tabs,
                 cron>>

handleClientSignIn(email, passwordOk, agentCode, fail) ==
  /\ session = NULL
  /\ clientSignIn(DB, email, passwordOk, agentCode, fail) # NULL
  /\ session' = clientSignIn(DB, email, passwordOk, agentCode, fail)
  /\ ui' = onAuthStateChange(ui, session')
  /\ UNCHANGED <<authUsers, profiles, user_roles, agents, agent_clients,
                 insurance_policies, premium_payments, policy_commissions, tabs,
                 cron>>

\* AuthContext.signOut
signOut ==
  /\ session # NULL
  /\ session' = NULL
  /\ ui' = onAuthStateChange(ui, NULL)
  /\ UNCHANGED <<authUsers, profiles, user_roles, agents, agent_clients,
                 insurance_policies, premium_payments, policy_commissions, tabs,
                 cron>>

\* AuthContext.signIn: signInWithPassword succeeds and the listener fires
signedIn(email) ==
  /\ session = NULL
  /\ email \in authUsers
  /\ session' = email
  /\ ui' = onAuthStateChange(ui, email)
  /\ UNCHANGED <<authUsers, profiles, user_roles, agents, agent_clients,
                 insurance_policies, premium_payments, policy_commissions, tabs,
                 cron>>

\* AuthProvider: getSession() resolves with the stored session
getSessionResolves ==
  /\ ui.authLoading
  /\ ui' = onAuthStateChange(ui, session)
  /\ UNCHANGED <<authUsers, profiles, user_roles, agents, agent_clients,
                 insurance_policies, premium_payments, policy_commissions, tabs,
                 session, cron>>

\* The browser loads a dashboard URL: the app starts and the page is mounted.
Reload(route) ==
  /\ ui' = Mount(route, TRUE, NULL)
  /\ ui' # ui
  /\ UNCHANGED <<authUsers, profiles, user_roles, agents, agent_clients,
                 insurance_policies, premium_payments, policy_commissions, tabs,
                 session, cron>>

\* Navigation inside the running app (Auth's redirect, a link) to a dashboard.
Navigate(route) ==
  /\ ui.route \notin Dashboards
  /\ ui' = Mount(route, ui.authLoading, ui.user)
  /\ ui' # ui
  /\ UNCHANGED <<authUsers, profiles, user_roles, agents, agent_clients,
                 insurance_policies, premium_payments, policy_commissions, tabs,
                 session, cron>>

\* useUserRole.fetchRole: the select on user_roles returns
RoleFetched(fail) ==
  /\ ui.pending # NULL
  /\ ui' = Commit([ui EXCEPT !.role = fetchedRole(DB, ui.pending, fail),
                             !.roleLoading = FALSE, !.pending = NULL], FALSE)
  /\ UNCHANGED <<authUsers, profiles, user_roles, agents, agent_clients,
                 insurance_policies, premium_payments, policy_commissions, tabs,
                 session, cron>>

\* The admin dashboard shows its content to the signed-in user.
AdminContent == ui.route = "/admin" /\ ui.view = "content" /\ session # NULL

\* The Assign Client dialog is opened or closed (Dialog onOpenChange).
setAssignDialogOpen(open) ==
  /\ AdminContent
  /\ ui.assignDialogOpen # open
  /\ ui' = [ui EXCEPT !.assignDialogOpen = open]
  /\ UNCHANGED <<authUsers, profiles, user_roles, agents, agent_clients,
                 insurance_policies, premium_payments, policy_commissions, tabs,
                 session, cron>>

\* An agent is picked in the dialog (Select onValueChange).
setSelectedAgent(agent_id) ==
  /\ AdminContent /\ ui.assignDialogOpen
  /\ ui.selectedAgent # agent_id
  /\ ui' = [ui EXCEPT !.selectedAgent = agent_id]
  /\ UNCHANGED <<authUsers, profiles, user_roles, agents, agent_clients,
                 insurance_policies, premium_payments, policy_commissions, tabs,
                 session, cron>>

\* A client is picked in the dialog (Select onValueChange).
setSelectedClientForAssign(client_id) ==
  /\ AdminContent /\ ui.assignDialogOpen
  /\ ui.selectedClientForAssign # client_id
  /\ ui' = [ui EXCEPT !.selectedClientForAssign = client_id]
  /\ UNCHANGED <<authUsers, profiles, user_roles, agents, agent_clients,
                 insurance_policies, premium_payments, policy_commissions, tabs,
                 session, cron>>

\* The dialog's Assign button: AdminDashboard.handleAssignClient.
AssignClientSubmit(fail) ==
  /\ AdminContent /\ ui.assignDialogOpen
  /\ LET r == assignClientDialog(DB, ui, session, fail)
     IN /\ RowCaps(r.db)
        /\ SetDB(r.db)
        /\ ui' = r.ui
        /\ ui' # ui
  /\ UNCHANGED <<session, tabs, cron>>

\* A signed-in user opens the Dashboard in a browser tab: the page fetches the
\* user's policies and payments.
OpenDashboard(t, uid) ==
  /\ uid \in authUsers
  /\ tabs' = [tabs EXCEPT ![t] = [user |-> uid, policies |-> fetchPolicies(DB, uid),
                                  premiumPayments |-> fetchPremiumPayments(DB, uid)]]
  /\ tabs' # tabs
  /\ UNCHANGED <<authUsers, profiles, user_roles, agents, agent_clients,
                 insurance_policies, premium_payments, policy_commissions,
                 session, ui, cron>>

\* Dashboard.handlePayPremium in tab t; after a recorded payment the page
\* fetches its payments again.
PayPremium(t, policyId, month, year, fail) ==
  /\ tabs[t].user # NULL
  /\ policyId \in tabs[t].policies
  /\ FreePaymentIds(DB) # {}
  /\ LET id == CHOOSE i \in FreePaymentIds(DB) : \A j \in FreePaymentIds(DB) : i <= j
         r == payPremium(DB, tabs[t], policyId, month, year, id, fail)
     IN /\ r.db # DB
        /\ SetDB(r.db)
        /\ tabs' = [tabs EXCEPT ![t].premiumPayments =
                      fetchPremiumPayments(r.db, tabs[t].user)]
  /\ UNCHANGED <<session, ui, cron>>

\* insert into premium_payments through the API by a signed-in user
TableInsertPayment(caller, policyId, user_id, month, year) ==
  /\ caller \in authUsers
  /\ FreePaymentIds(DB) # {}
  /\ LET id == CHOOSE i \in FreePaymentIds(DB) : \A j \in FreePaymentIds(DB) : i <= j
     IN Write(insertPayment(DB, caller, NewPayment(id, policyId, user_id, month, year)))

\* pg_cron, 09:00 every day: POST to send-emi-reminders
CronRun(fail) ==
  /\ ~cron.ran
  /\ LET r == send_emi_reminders(DB, "POST", cron.month, cron.day, fail)
     IN cron' = [cron EXCEPT !.ran = TRUE,
                             !.reminded = @ \cup r.included,
                             !.failed = @ \/ fail[1] # "none"]
  /\ UNCHANGED <<authUsers, profiles, user_roles, agents, agent_clients,
                 insurance_policies, premium_payments, policy_commissions, tabs,
                 session, ui>>

\* The day ends; a new month starts with the policies that exist then.
Midnight ==
  /\ cron.ran
  /\ cron.day < DaysIn(cron.month) \/ cron.month < MaxMonth
  /\ cron' = IF cron.day < DaysIn(cron.month)
               THEN [cron EXCEPT !.day = @ + 1, !.ran = FALSE]
               ELSE [month |-> cron.month + 1, day |-> 1, ran |-> FALSE,
                     reminded |-> {}, failed |-> FALSE,
                     enrolled |-> {p.id : p \in insurance_policies}]
  /\ UNCHANGED <<authUsers, profiles, user_roles, agents, agent_clients,
                 insurance_policies, premium_payments, policy_commissions, tabs,
                 session, ui>>

\* ------------------------------------------------ specifications
\* Requests to the serverless functions.  Requests(methods, calls) is every request; the
\* actions draw from EffectiveRequests, the requests that get past the checks
\* before the first write (the others leave every table unchanged and are
\* stuttering steps).
Requests(methods, calls) == methods \X Tokens \X Bodies \X calls
EffectiveRequests(calls) ==
  {rq \in Requests({"POST"}, calls) :
     /\ rq[1] = "POST" /\ rq[2] # NULL
     /\ rq[3].email # NULL /\ rq[3].password /\ rq[3].fullName
     /\ rq[4] \in {"none", "upsertProfile", "deleteRoles", "insertRole",
                   "insertAgent", "insertAssignment"}}

Accounts ==
  \/ \E email \in Users : signUp(email)
  \/ \E rq \in EffectiveRequests(CreateAgentCalls) : CreateAgent(rq[1], rq[2], rq[3], rq[4])

\* Spec: account provisioning by the serverless functions, and assignments.
Next ==
  \/ Accounts
  \/ \E rq \in EffectiveRequests(OnboardClientCalls) : OnboardClient(rq[1], rq[2], rq[3], rq[4])
  \/ \E c \in Users, a \in Users, u \in Users : handleAssignClient(c, a, u)
  \/ \E c \in Users, row \in Users \X Users : handleRemoveAssignment(c, row)

Spec == Init /\ [][Next]_vars

\* SpecLogin: Spec and the sign-in page.
NextLogin ==
  \/ Next
  \/ \E c \in Users, e \in Users : RpcPromoteToAdmin(c, e)
  \/ \E e \in Users, pw \in BOOLEAN, f \in SignInCalls : handleAdminSignIn(e, pw, f)
  \/ \E e \in Users, pw \in BOOLEAN, c \in AgentCodes \cup {""}, f \in SignInCalls :
       handleClientSignIn(e, pw, c, f)
  \/ signOut

SpecLogin == Init /\ [][NextLogin]_vars

\* SpecRoles: what a signed-in user can do to user_roles through the API.
NextRoles ==
  \/ \E email \in Users : signUp(email)
  \/ \E c \in Users, e \in Users : RpcPromoteToAdmin(c, e)
  \/ \E c \in Users, u \in Users : RpcInsertSeedPolicies(c, u)
  \/ \E c \in Users, row \in Users \X app_role : TableInsertUserRole(c, row)
  \/ \E c \in Users, row \in Users \X app_role, r \in app_role : TableUpdateUserRole(c, row, r)
  \/ \E c \in Users, row \in Users \X app_role : TableDeleteUserRole(c, row)

SpecRoles == Init /\ [][NextRoles]_vars

\* SpecAccess: agents, assignments and policies.
NextAccess ==
  \/ \E email \in Users : signUp(email)
  \/ \E rq \in EffectiveRequests({"none"}) : CreateAgent(rq[1], rq[2], rq[3], rq[4])
  \/ \E c \in Users, a \in Users, u \in Users : handleAssignClient(c, a, u)
  \/ \E c \in Users, row \in Users \X Users : handleRemoveAssignment(c, row)
  \/ \E c \in Users, i \in PolicyIds, u \in Users, a \in Users \cup {NULL} :
       InsertPolicy(c, i, u, a, <<"active", 5000, 5>>)

SpecAccess == Init /\ [][NextAccess]_vars

\* SpecPolicyWrites: SpecAccess and updates of policies.
NextPolicyWrites ==
  \/ NextAccess
  \/ \E c \in Users, i \in PolicyIds, u \in Users, a \in Users \cup {NULL} :
       UpdatePolicy(c, i, u, a)

SpecPolicyWrites == Init /\ [][NextPolicyWrites]_vars

\* SpecPage: accounts, the session and the dashboards.
NextPage ==
  \/ \E email \in Users : signUp(email)
  \/ \E rq \in EffectiveRequests({"none"}) : CreateAgent(rq[1], rq[2], rq[3], rq[4])
  \/ \E e \in Users : signedIn(e)
  \/ signOut
  \/ getSessionResolves
  \/ \E p \in Dashboards : Reload(p)
  \/ \E p \in Dashboards : Navigate(p)
  \/ \E f \in {"none", "selectRole"} : RoleFetched(f)

SpecPage == Init /\ [][NextPage]_vars

\* SpecReload: SpecPage with every role lookup answered without an error.
NextReload ==
  \/ \E email \in Users : signUp(email)
  \/ \E rq \in EffectiveRequests({"none"}) : CreateAgent(rq[1], rq[2], rq[3], rq[4])
  \/ \E e \in Users : signedIn(e)
  \/ signOut
  \/ getSessionResolves
  \/ \E p \in Dashboards : Reload(p)
  \/ \E p \in Dashboards : Navigate(p)
  \/ RoleFetched("none")

SpecReload == Init /\ [][NextReload]_vars

\* SpecAssign: the admin dashboard's Assign Client dialog.
NextAssign ==
  \/ \E email \in Users : signUp(email)
  \/ \E rq \in EffectiveRequests({"none"}) : CreateAgent(rq[1], rq[2], rq[3], rq[4])
  \/ \E e \in Users : signedIn(e)
  \/ Navigate("/admin")
  \/ RoleFetched("none")
  \/ \E open \in BOOLEAN : setAssignDialogOpen(open)
  \/ \E a \in Users : setSelectedAgent(a)
  \/ \E c \in Users : setSelectedClientForAssign(c)
  \/ \E c \in Users, row \in Users \X Users : handleRemoveAssignment(c, row)
  \/ \E f \in BOOLEAN : AssignClientSubmit(f)

SpecAssign == Init /\ [][NextAssign]_vars

\* SpecCron: policies and the daily reminder run.
CronShapes ==
  {<<"active", 5000, 31>>, <<"active", 1200, 31>>, <<"active", 5000, 1>>,
   <<"expired", NULL, NULL>>}
NextCron ==
  \/ \E email \in Users : signUp(email)
  \/ \E c \in Users, i \in PolicyIds, sh \in CronShapes : InsertPolicy(c, i, c, NULL, sh)
  \/ \E f \in ReminderCalls : CronRun(f)
  \/ Midnight

SpecCron == Init /\ [][NextCron]_vars

\* SpecPayments: policies, Dashboard pages and premium payments.
NextPayments ==
  \/ \E email \in Users : signUp(email)
  \/ \E c \in Users, i \in PolicyIds : InsertPolicy(c, i, c, NULL, <<"active", 5000, 5>>)
  \/ \E t \in Tabs, u \in Users : OpenDashboard(t, u)
  \/ \E t \in Tabs, p \in PolicyIds, my \in PayMonths, f \in BOOLEAN :
       PayPremium(t, p, my[1], my[2], f)

SpecPayments == Init /\ [][NextPayments]_vars

\* SpecPaymentsApi: policies and inserts into premium_payments through the API.
NextPaymentsApi ==
  \/ \E email \in Users : signUp(email)
  \/ \E c \in Users, i \in PolicyIds : InsertPolicy(c, i, c, NULL, <<"active", 5000, 5>>)
  \/ \E c \in Users, p \in PolicyIds, u \in Users, my \in PayMonths :
       TableInsertPayment(c, p, u, my[1], my[2])

SpecPaymentsApi == Init /\ [][NextPaymentsApi]_vars

\* SpecReminders: one run of send-emi-reminders, on a day before a 31st, before a
\* 1st, or before a day on which no modelled policy is due.
RunDays == {<<1, 30>>, <<1, 31>>, <<2, 27>>}
InitReminders ==
  /\ authUsers = {} /\ profiles = {} /\ user_roles = {} /\ agents = {}
  /\ agent_clients = {} /\ insurance_policies = {}
  /\ premium_payments = {} /\ policy_commissions = {}
  /\ session = NULL
  /\ tabs = [t \in Tabs |-> ClosedTab]
  /\ ui = Unmounted("/auth", "", TRUE, NULL)
  /\ \E d \in RunDays :
       cron = [month |-> d[1], day |-> d[2], ran |-> FALSE, reminded |-> {},
               enrolled |-> {}, failed |-> FALSE]

NextReminders ==
  \/ \E email \in Users : signUp(email)
  \/ \E c \in Users, i \in PolicyIds, sh \in CronShapes : InsertPolicy(c, i, c, NULL, sh)
  \/ \E f \in ReminderCalls : CronRun(f)

SpecReminders == InitReminders /\ [][NextReminders]_vars

\* SpecCommissions: accounts, agents, assignments, policies, the daily reminder
\* run, and inserts into policy_commissions through the API.
CommissionShapes == {<<"active", 5000, 2>>}
CommissionWrites ==
  \E c \in Users, p \in PolicyIds, a \in Users : TableInsertCommission(c, p, a)
NextCommissions ==
  \/ \E email \in Users : signUp(email)
  \/ \E token \in Users, email \in Users :
       CreateAgent("POST", token, CompleteBody(email, "AG1", NULL), "none")
  \/ \E c \in Users, a \in Users, u \in Users : handleAssignClient(c, a, u)
  \* AgentDashboard.handleAddPolicy: agent_id is the id of the caller's agent record
  \* (an agents row has the id of its user)
  \/ \E c \in Users, i \in PolicyIds, u \in Users, sh \in CommissionShapes :
       InsertPolicy(c, i, u, c, sh)
  \/ CronRun(<<"none", NULL>>)
  \/ CommissionWrites

SpecCommissions == Init /\ [][NextCommissions]_vars

\* ------------------------------------------------ properties
\* The requests a state admits within the bound on the policies table.
InBound(rq) == rq[3].email # NULL => SeedRoom(DB, rq[3].email)

\* Whether a request's bearer token resolves to a user (auth.getUser answers one).
Resolves(db, token, fail) == token # NULL /\ token \in db.authUsers /\ fail # "getUser"

\* C3: create-agent writes nothing unless the request is a POST whose bearer
\* token resolves to a user with the admin role; it answers 405 for another
\* method, 401 for a missing or unresolvable token, 403 for a caller who is not
\* an admin, in that order and without having read the request body.
C3_CreateAgentGuards ==
  LET db == DB IN
  \A rq \in Requests({"POST", "GET"}, CreateAgentCalls) :
    InBound(rq) =>
      LET r == create_agent(db, rq[1], rq[2], rq[3], rq[4])
          refusal == IF rq[1] # "POST" THEN 405
                     ELSE IF ~Resolves(db, rq[2], rq[4]) THEN 401
                     ELSE IF ~has_role(db, rq[2], "admin") THEN 403
                     ELSE NULL
      IN /\ refusal # NULL => r.status = refusal /\ r.db = db
         /\ r.status \in {405, 401, 403} => ~r.bodyRead /\ r.db = db

\* An admin has created an agent, and a signed-in user who is not an admin is refused.
C3_Witness ==
  /\ agents # {}
  /\ \E t \in authUsers :
       /\ ~has_role(DB, t, "admin")
       /\ \E rq \in Requests({"POST"}, {"none"}) :
            /\ rq[1] = "POST" /\ rq[2] = t /\ InBound(rq)
            /\ create_agent(DB, rq[1], rq[2], rq[3], rq[4]).status = 403

\* C4: onboard-client writes nothing unless the bearer token resolves to a user
\* who has the agent role and an agents record; it answers 401 (token missing or
\* invalid), 403 (not an agent), 404 (no agents record) or 400 (email, password
\* or fullName missing), and every table is unchanged in those cases.
C4_OnboardClientGuards ==
  LET db == DB IN
  \A rq \in Requests(Methods, OnboardClientCalls) :
    InBound(rq) =>
      LET r == onboard_client(db, rq[1], rq[2], rq[3], rq[4])
          refusal == IF rq[1] # "POST" THEN NULL
                     ELSE IF ~Resolves(db, rq[2], rq[4]) THEN 401
                     ELSE IF ~has_role(db, rq[2], "agent") THEN 403
                     ELSE IF rq[4] = "has_role" THEN NULL
                     ELSE IF ~\E a \in db.agents : a.user_id = rq[2] THEN 404
                     ELSE IF rq[4] \in {"selectAgent", "json"} THEN NULL
                     ELSE IF rq[3].email = NULL \/ ~rq[3].password \/ ~rq[3].fullName
                       THEN 400
                     ELSE NULL
      IN /\ refusal # NULL => r.status = refusal
         /\ r.db # db => /\ rq[1] = "POST" /\ Resolves(db, rq[2], rq[4])
                         /\ has_role(db, rq[2], "agent")
                         /\ \E a \in db.agents : a.user_id = rq[2]
         /\ r.status \in {401, 403, 404, 400} => r.db = db

\* An agent has onboarded a client; a client calling the function is refused
\* with 403 and the agent gets 400 for a body without email.
C4_Witness ==
  /\ \E pr \in profiles : pr.onboarded_by_agent # NULL
  /\ \E t \in authUsers : \E rq \in Requests({"POST"}, {"none"}) :
       /\ rq[2] = t /\ InBound(rq) /\ ~has_role(DB, t, "agent")
       /\ onboard_client(DB, rq[1], rq[2], rq[3], rq[4]).status = 403
  /\ \E t \in authUsers : \E rq \in Requests({"POST"}, {"none"}) :
       /\ rq[2] = t /\ rq[3].email = NULL
       /\ onboard_client(DB, rq[1], rq[2], rq[3], rq[4]).status = 400

\* C5 (as claimed): whenever create-agent answers 200 with success, the new user
\* has a profile row, exactly one user_roles row and that row is 'agent', and
\* exactly one agents row, carrying the requested agent_code.
C5_CreateAgentSuccess ==
  \A rq \in Requests({"POST"}, CreateAgentCalls) :
    InBound(rq) =>
      LET r == create_agent(DB, rq[1], rq[2], rq[3], rq[4])
      IN (r.status = 200 /\ r.success) =>
           /\ \E pr \in r.db.profiles : pr.id = r.userId
           /\ {row \in r.db.user_roles : row[1] = r.userId} = {<<r.userId, "agent">>}
           /\ Cardinality({a \in r.db.agents : a.user_id = r.userId}) = 1
           /\ \A a \in r.db.agents : a.user_id = r.userId => a.agent_code = rq[3].agentCode

C1_NonAdminNeverWritesRoles ==
  \A c \in authUsers :
    ~has_role(DB, c, "admin") =>
      /\ \A row \in Users \X app_role :
           /\ insertUserRole(DB, c, row).user_roles = user_roles
           /\ deleteUserRole(DB, c, row).user_roles = user_roles
           /\ \A r \in app_role : updateUserRole(DB, c, row, r).user_roles = user_roles
      /\ \A u \in Users :
           Cardinality(FreePolicyIds(DB)) >= 2 =>
             insert_seed_policies(DB, u).user_roles = user_roles
      /\ \A e \in Users :
           /\ promote_to_admin(DB, e).user_roles = user_roles
           /\ ~has_role(promote_to_admin(DB, e), c, "admin")

\* The owners of the agents whose assignment to P's owner is in agent_clients.
AssignedAgentUsers(db, p) ==
  {a.user_id : a \in {b \in db.agents : <<b.id, p.user_id>> \in db.agent_clients}}

\* C2: after every step, a signed-in user U reads an insurance_policies row P only
\* if U owns P, or U holds the admin role, or U is the user of an agent with an
\* agent_clients row for P's owner; and when a step removes an assignment, the
\* agent's user no longer reads that client's policies (unless owner or admin).
C2_PolicyReadAccess ==
  [][/\ \A U \in authUsers' : \A P \in selectPolicies(DB', U) :
          \/ P.user_id = U
          \/ has_role(DB', U, "admin")
          \/ U \in AssignedAgentUsers(DB', P)
     /\ \A row \in agent_clients \ agent_clients' : \A a \in agents' :
          a.id = row[1] =>
            \A P \in selectPolicies(DB', a.user_id) :
              P.user_id = row[2] => (a.user_id = row[2] \/ has_role(DB', a.user_id, "admin"))
    ]_vars

\* An agent reads a policy of an assigned client that it neither owns nor reads
\* as admin.
C2_Witness ==
  \E P \in insurance_policies : \E U \in authUsers :
    /\ U # P.user_id /\ ~has_role(DB, U, "admin")
    /\ P \in selectPolicies(DB, U)
    /\ U \in AssignedAgentUsers(DB, P)

\* C7 (as claimed): a Client Login attempt leaves the user signed in only if the
\* user has an agent_clients assignment and the entered agent code is the
\* agent_code of the agent the user is assigned to.
C7_ClientLoginNeedsAgentCode ==
  \A e \in Users, pw \in BOOLEAN, code \in AgentCodes \cup {""}, f \in SignInCalls :
    clientSignIn(DB, e, pw, code, f) # NULL =>
      \E ac \in agent_clients : \E a \in agents :
        ac[2] = e /\ a.id = ac[1] /\ a.agent_code = code

\* C8 (as claimed): the Admin/Agent tab leaves a session signed in only for users
\* whose stored role is admin or agent, and the Client Login tab only for users
\* whose stored role is 'user'.
C8_LoginTabsMatchRole ==
  \A e \in Users, pw \in BOOLEAN, f \in SignInCalls :
    /\ adminSignIn(DB, e, pw, f) # NULL =>
         has_role(DB, e, "admin") \/ has_role(DB, e, "agent")
    /\ \A code \in AgentCodes \cup {""} :
         clientSignIn(DB, e, pw, code, f) # NULL => has_role(DB, e, "user")

\* The states the dashboards may rest in.
PageSettled(u) ==
  /\ u.view = "content" => isRole(u)
  /\ u.fetched => isRole(u)
  /\ (u.route \in Dashboards /\ ~u.authLoading /\ ~u.roleLoading)
       => u.user # NULL /\ isRole(u)

\* C9: a dashboard shows its content and has fetched its data only while
\* useUserRole reports the page's role (admin on /admin, agent on /agent); once
\* auth loading and role loading have both finished the page is left unless a
\* user with that role is signed in, a visitor without a session for /auth, and a
\* signed-in user for /dashboard with the toast 'Access denied'.
C9_DashboardGuards ==
  [][/\ PageSettled(ui')
     /\ (ui.route \in Dashboards /\ ui'.route \notin Dashboards) =>
          \/ ui'.route = "/auth" /\ ui'.user = NULL /\ ui'.toast = ""
          \/ ui'.route = "/dashboard" /\ ui'.user # NULL /\ ui'.toast = "Access denied"
    ]_vars

\* An admin sees the admin dashboard's content with its data fetched.
C9_Witness ==
  /\ ui.route = "/admin" /\ ui.view = "content" /\ ui.fetched
  /\ has_role(DB, ui.user, "admin")

\* C10 (as claimed): with a run every day and no failed call, at the end of a
\* calendar month every active policy with a monthly EMI and a due day in 1..31
\* that existed when the month began was listed in a reminder of that month.
C10_RemindedEveryMonth ==
  (cron.day = DaysIn(cron.month) /\ cron.ran /\ ~cron.failed) =>
    \A p \in insurance_policies :
      (/\ p.id \in cron.enrolled
       /\ p.policy_status = "active" /\ p.monthly_emi # NULL
       /\ p.emi_date \in 1..31)
        => p.id \in cron.reminded

\* The day-of-month of the day after the calendar's current day.
FollowingDay == IF cron.day = DaysIn(cron.month) THEN 1 ELSE cron.day + 1

\* The policies a run of the current day is to select, and their owners.
DuePolicies ==
  {p \in insurance_policies :
     p.policy_status = "active" /\ p.monthly_emi # NULL /\ p.emi_date = FollowingDay}
DueOwners == {p.user_id : p \in DuePolicies}

C12_OnePaymentPerMonth ==
  \A r1 \in premium_payments, r2 \in premium_payments :
    (/\ r1.policy_id = r2.policy_id
     /\ r1.payment_month = r2.payment_month
     /\ r1.payment_year = r2.payment_year) => r1 = r2

\* C13: in every reachable state, inserting an auth.users row for an email that
\* has no account yet (as sign-up, create-agent and onboard-client all do) leaves,
\* in the same transaction, a profile of the new user and exactly one user_roles
\* row of the new user: 'admin' for admin1@example.com, 'user' for any other.
C13_NewUserProfileAndRole ==
  \A e \in Users \ authUsers :
    SeedRoom(DB, e) =>
      LET db == createUser(DB, e)
      IN /\ e \in db.authUsers
         /\ \E p \in db.profiles : p.id = e
         /\ {r \in db.user_roles : r[1] = e}
              = {<<e, IF e = AdminEmail THEN "admin" ELSE "user">>}

\* admin1@example.com and another user have accounts, through more than one
\* path, and an email is still free.
C13_Witness ==
  /\ AdminEmail \in authUsers /\ <<AdminEmail, "admin">> \in user_roles
  /\ agents # {}
  /\ \E e \in authUsers : <<e, "user">> \in user_roles
  /\ Users \ authUsers # {}

\* C14 (as claimed): a signed-in user who is not an admin and does not own the
\* row can insert or update an insurance_policies row only if the row's user_id
\* is a client assigned to an agent record of the caller and the row's agent_id
\* is the id of an agent record of the caller.
C14_AgentWritesOwnClients ==
  \A c \in authUsers :
    ~has_role(DB, c, "admin") =>
      LET mine == {a.id : a \in {b \in agents : b.user_id = c}}
          allowed(u, a) == a \in mine /\ \E ac \in agent_clients : ac[1] \in mine /\ ac[2] = u
      IN \A u \in Users \ {c}, a \in Users \cup {NULL} :
           /\ \A i \in FreePolicyIds(DB) :
                insertPolicy(DB, c, NewPolicy(i, u, a, "active", 5000, 5)) # DB
                  => allowed(u, a)
           /\ \A old \in insurance_policies :
                (old.user_id # c /\ updatePolicy(DB, c, old, u, a) # DB)
                  => allowed(u, a)

\* C16 (as claimed): when no role lookup fails, a dashboard opened or reloaded
\* by a user who is already signed in and holds the page's role in user_roles
\* (admin on /admin, agent on /agent) is never left for /dashboard with the
\* toast 'Access denied'.
C16_NoAccessDeniedForRoleHolder ==
  [][(/\ ui.route \in Dashboards
      /\ session # NULL /\ session' = session
      /\ ui'.route = "/dashboard" /\ ui'.toast = "Access denied")
       => ~has_role(DB, session, PageRole(ui.route))
    ]_vars

\* C17 (as claimed): whatever create-agent requests have finished, and with
\* whatever status, a user holds the role 'agent' if and only if an agents row
\* exists for that user.
C17_AgentRoleIffAgentRow ==
  \A u \in authUsers :
    <<u, "agent">> \in user_roles <=> \E a \in agents : a.user_id = u

\* C18 (as claimed): in every reachable state every user has at most one
\* user_roles row, so that the role lookup of useUserRole, which expects at most
\* one row, reports 'admin' for every user holding the admin role.
C18_OneRolePerUser ==
  \A u \in authUsers :
    /\ Cardinality({r \in user_roles : r[1] = u}) <= 1
    /\ has_role(DB, u, "admin") => fetchedRole(DB, u, "none") = "admin"

\* C19: whenever the admin dashboard's Assign Client dialog holds an agent and
\* a client that are already assigned to each other, submitting it (the request
\* reaching the table) leaves agent_clients, the selected agent and client and
\* the open dialog as they are, shows the toast 'This client is already
\* assigned to this agent', and ends with the in-progress flag cleared.
C19_DuplicateAssignment ==
  (/\ AdminContent /\ ui.assignDialogOpen
   /\ ui.selectedAgent # NULL /\ ui.selectedClientForAssign # NULL
   /\ <<ui.selectedAgent, ui.selectedClientForAssign>> \in agent_clients)
    => LET r == assignClientDialog(DB, ui, session, FALSE)
       IN /\ assignClientError(DB, session, ui.selectedAgent,
                               ui.selectedClientForAssign, FALSE) = "23505"
          /\ r.db = DB
          /\ r.ui = [ui EXCEPT !.toast = "This client is already assigned to this agent",
                               !.assigningClient = FALSE]
          /\ r.ui.assignDialogOpen

\* The dialog after a rejected duplicate: still open, the selection kept.
C19_Witness ==
  /\ AdminContent /\ ui.assignDialogOpen
  /\ ui.toast = "This client is already assigned to this agent"
  /\ <<ui.selectedAgent, ui.selectedClientForAssign>> \in agent_clients
  /\ ~ui.assigningClient

\* The Dashboard of user u, just loaded.
LoadedTab(u) ==
  [user |-> u, policies |-> fetchPolicies(DB, u),
   premiumPayments |-> fetchPremiumPayments(DB, u)]

\* The tables after each page action and serverless function that writes, for
\* every input in the bounds.
HandlerResults ==
  LET db == DB IN
     {insertPolicy(db, c, NewPolicy(i, c, NULL, sh[1], sh[2], sh[3])) :
        c \in authUsers, i \in FreePolicyIds(db), sh \in CommissionShapes}
  \cup UNION {{insertPolicy(db, ag.user_id, NewPolicy(i, u, ag.id, sh[1], sh[2], sh[3])) :
                 u \in Users, i \in FreePolicyIds(db), sh \in CommissionShapes} : ag \in agents}
  \cup UNION {{payPremium(db, LoadedTab(u), p, 1, 2025, i, f).db :
                 p \in PolicyIds, i \in FreePaymentIds(db), f \in BOOLEAN} : u \in authUsers}
  \cup {assignClient(db, c, a, u) : c \in authUsers, a \in Users, u \in Users}
  \cup {removeAssignment(db, c, row) : c \in authUsers, row \in Users \X Users}
  \cup {toggleAgentStatus(db, c, a, st) : c \in authUsers, a \in Users, st \in BOOLEAN}
  \cup {create_agent(db, rq[1], rq[2], rq[3], rq[4]).db :
          rq \in {r \in EffectiveRequests(CreateAgentCalls) : InBound(r)}}
  \cup {onboard_client(db, rq[1], rq[2], rq[3], rq[4]).db :
          rq \in {r \in EffectiveRequests(OnboardClientCalls) : InBound(r)}}

\* C20: no page action and no serverless function (client Add Policy, agent Add
\* Policy, Pay Premium, assigning or removing a client, the agent status toggle,
\* create-agent, onboard-client, send-emi-reminders) inserts, updates or deletes
\* a policy_commissions row: in every reachable state each of them leaves the
\* table as it is, and the table changes only by a write through the API under
\* the admins' policy.
C20_CommissionsFrame ==
  /\ [](\A db \in HandlerResults : db.policy_commissions = policy_commissions)
  /\ [][policy_commissions' # policy_commissions => CommissionWrites]_vars

\* Commission rows exist, an agent has added a policy for an assigned client
\* and the reminders have run.
C20_Witness ==
  /\ policy_commissions # {}
  /\ \E p \in insurance_policies :
       p.agent_id # NULL /\ <<p.agent_id, p.user_id>> \in agent_clients
  /\ cron.ran

\* C15 (as claimed): an insert into premium_payments by a signed-in user without
\* the admin role is accepted only when the row's user_id is the caller and its
\* policy_id is a policy owned by the caller.
C15_OwnPaymentsOnly ==
  \A c \in authUsers :
    ~has_role(DB, c, "admin") =>
      \A p \in PolicyIds, u \in Users, my \in PayMonths, i \in FreePaymentIds(DB) :
        insertPayment(DB, c, NewPayment(i, p, u, my[1], my[2])) # DB =>
          /\ u = c
          /\ \E q \in insurance_policies : q.id = p /\ q.user_id = c

====
